---- MODULE Spec2Model ----
(***************************************************************************)
(* Production Issue Investigator: the investigation run.                   *)
(*                                                                         *)
(* The scheduler resolves the search time windows, drives the log search   *)
(* (with the search client's rate-limit and retry handling), derives the   *)
(* services, runs one Deployment Checker -> Code Checker pipeline per      *)
(* service on a worker pool, and aggregates the per-service results.       *)
(* Time is counted in hours.                                               *)
(***************************************************************************)
EXTENDS Integers, Sequences, FiniteSets, TLC

VARIABLES
    state,              \* scheduler state of the run
    now,                \* wall-clock time at which resolution started
    clock,              \* current wall-clock time
    reference,          \* the user's datetime, or NoT
    mayFail,            \* environment: services whose GitHub calls can fail
    attempts,           \* the resolved time windows, in the order tried
    attemptIdx,         \* index of the window being searched
    call,               \* the search client's current call
    services,           \* unique services derived from the search result
    deployStatus,       \* per service: Deployment Checker stage
    codeStatus,         \* per service: Code Checker stage
    partialFailures,    \* per service: recorded stage failures
    perService,         \* merged per-service results, keyed by service
    clarificationAsked, \* the user was asked for clarification
    result,             \* the final InvestigationResult, once produced
    deadlineExpired,    \* the run's external deadline has passed
    svc,                \* one service's investigation, stage by stage
    fan                 \* the session fan-out of the initial result

\* The variables of the scheduler's run.
runVars == <<state, now, clock, reference, mayFail, attempts,
             attemptIdx, call, services, deployStatus, codeStatus,
             partialFailures, perService, clarificationAsked, result>>

\* The variables the scheduler's own steps leave alone.
aside == <<deadlineExpired, svc, fan>>

vars == <<runVars, aside>>

----------------------------------------------------------------------------
(* Bounds of the model *)

MaxServices == 2
PoolServices == 6
MaxWait == 2
StartClock == 200
ClockSpan == 2
MaxTraces == 3
MaxFiles == 3
MaxSessions == 3
MaxCap == 2
MaxStamp == 2
MaxCount == 2
MaxEntryIds == 3
MaxResultLen == 2
MaxWords == 3
MaxCommits == 2
MaxLine == 7
MaxHunkLen == 2
MaxHunks == 1
MaxFrames == 2
MaxRawLines == 4
MaxRetries == 1
MaxConcurrency == 2
RefSpan == 100
RefAhead == 10

(* Program constants *)

DefaultHours == 4
DayHours == 24
WeekHours == 168
FirstHalfWidth == 2
SecondHalfWidth == 12
ThirdHalfWidth == 84
MaxWorkers == 5
RetryLimit == 1
SessionDefaultHours == 24
DeploymentWindowHours == 72
Proximity == 5
ToolErrorRetries == 1
TimeoutRetries == 0
SchemaErrorRetries == 0
TargetQuality == 85
PhaseCount == 6
BuildPhases == 5
ImplementationTasks == 10
VerificationTasks == 4

\* The optional user datetime: absent, or given at a time.
NoT == [given |-> FALSE, at |-> 0]
At(t) == [given |-> TRUE, at |-> t]

NoRequest == [attempt |-> 0, from |-> 0, to |-> 0]
NoFailure == "none"

AllServices == 1..PoolServices
FailureKinds == {"timeout", "api_error"}
References == {NoT} \cup {At(StartClock - d) : d \in {1, 50, 100}}

Min(a, b) == IF a <= b THEN a ELSE b

----------------------------------------------------------------------------
(* TimeWindowResolver *)

\* Variant: the default window is centred on the current time.
FirstWindowCentred(T, n) ==
    IF ~T.given THEN [from |-> n - FirstHalfWidth, to |-> n + FirstHalfWidth]
    ELSE [from |-> T.at - FirstHalfWidth, to |-> T.at + FirstHalfWidth]

\* The first window: the default 4h, or +-2h around the user's datetime.
FirstWindow(T, n) ==
    IF ~T.given THEN [from |-> n - DefaultHours, to |-> n]
    ELSE [from |-> T.at - FirstHalfWidth, to |-> T.at + FirstHalfWidth]

\* Variant: the first expansion is not limited by the current time.
SecondWindowUnclamped(T, n) ==
    IF ~T.given THEN [from |-> n - DayHours, to |-> n]
    ELSE [from |-> T.at - SecondHalfWidth, to |-> T.at + SecondHalfWidth]

\* First expansion: 24h, or +-12h never beyond the current time.
SecondWindow(T, n) ==
    IF ~T.given THEN [from |-> n - DayHours, to |-> n]
    ELSE [from |-> T.at - SecondHalfWidth,
          to |-> Min(T.at + SecondHalfWidth, n)]

\* Second expansion: 7 days, or +-3.5 days never beyond the current time.
ThirdWindow(T, n) ==
    IF ~T.given THEN [from |-> n - WeekHours, to |-> n]
    ELSE [from |-> T.at - ThirdHalfWidth,
          to |-> Min(T.at + ThirdHalfWidth, n)]

TimeWindows(T, n) ==
    <<FirstWindow(T, n), SecondWindow(T, n), ThirdWindow(T, n)>>

----------------------------------------------------------------------------
(* Initial state *)

IdleCall == [status |-> "idle", sends |-> 0, request |-> NoRequest,
             resent |-> NoRequest, reset |-> 0, wait |-> 0, resentAt |-> 0,
             limited |-> 0, failure |-> NoFailure, found |-> {}]

\* No single-service investigation and no fan-out under way.
IdleSvc == [stage |-> "idle", traces |-> 0, deployment |-> "none",
            codeAnalysis |-> FALSE, fileAnalyses |-> 0,
            exceptionAnalysis |-> FALSE]
IdleFan == [stage |-> "idle", sessions |-> <<>>, cap |-> 0, retained |-> {},
            queries |-> <<>>, concurrency |-> 0]

InitRun ==
    /\ state = "SEARCHING"
    /\ clock = now
    /\ attempts = <<>>
    /\ attemptIdx = 0
    /\ call = IdleCall
    /\ services = {}
    /\ deployStatus = [s \in AllServices |-> "idle"]
    /\ codeStatus = [s \in AllServices |-> "idle"]
    /\ partialFailures = [s \in AllServices |-> {}]
    /\ perService = [s \in {} |-> {}]
    /\ clarificationAsked = FALSE
    /\ result = {}

InitAside ==
    /\ deadlineExpired = FALSE
    /\ svc = IdleSvc
    /\ fan = IdleFan

Init ==
    /\ now = StartClock
    /\ reference \in References
    /\ mayFail = AllServices
    /\ InitRun
    /\ InitAside

----------------------------------------------------------------------------
(* RateLimitedSearchClient: one call = one request and at most one retry *)

\* The search request of the i-th time window.
Query(i) == [attempt |-> i, from |-> attempts[i].from, to |-> attempts[i].to]

\* Variant: the retry is sent for the next, wider window.
RetryRequestExpanded(c) ==
    LET i == Min(c.request.attempt + 1, Len(attempts)) IN
    [attempt |-> i, from |-> attempts[i].from, to |-> attempts[i].to]

\* A retry sends the same request again.
RetryRequest(c) == c.request

\* Variant: the reset timestamp itself is taken as the duration.
WaitTimeAbsolute(reset, t) == reset

\* wait_seconds = X-RateLimit-Reset - current_time
WaitTime(reset, t) == reset - t

\* A request is retried once.
CanRetry(c) == c.sends <= RetryLimit

\* The services a search can find: none, or the first n services.
Findings == {{}} \cup {1..n : n \in 1..MaxServices}

\* resolution start: the windows are computed once, from the current time
ResolveTimeWindows ==
    /\ state = "SEARCHING"
    /\ attempts = <<>>
    /\ attempts' = TimeWindows(reference, now)
    /\ attemptIdx' = 1
    /\ UNCHANGED <<aside, state, now, clock, reference, mayFail, call, services,
                   deployStatus, codeStatus, partialFailures, perService,
                   clarificationAsked, result>>

\* the search of the current window is sent to the backend
IssueSearch ==
    /\ state = "SEARCHING"
    /\ attempts # <<>>
    /\ call.status = "idle"
    /\ call' = [IdleCall EXCEPT !.status = "inflight", !.sends = 1,
                                !.request = Query(attemptIdx)]
    /\ UNCHANGED <<aside, state, now, clock, reference, mayFail, attempts,
                   attemptIdx, services, deployStatus, codeStatus,
                   partialFailures, perService, clarificationAsked, result>>

\* 200: the backend answers with the matching entries (possibly none)
ReceiveEntries ==
    /\ call.status = "inflight"
    /\ \E found \in Findings :
          call' = [call EXCEPT !.status = "ok", !.found = found]
    /\ UNCHANGED <<aside, state, now, clock, reference, mayFail, attempts,
                   attemptIdx, services, deployStatus, codeStatus,
                   partialFailures, perService, clarificationAsked, result>>

\* 429: read X-RateLimit-Reset, compute the wait; rate limited again after
\* the wait: report the error
ReceiveRateLimit ==
    /\ call.status = "inflight"
    /\ \E reset \in (clock + 1)..(clock + MaxWait) :
          call' = IF CanRetry(call)
                  THEN [call EXCEPT !.status = "sleeping", !.reset = reset,
                                    !.wait = WaitTime(reset, clock),
                                    !.limited = @ + 1]
                  ELSE [call EXCEPT !.status = "failed",
                                    !.failure = "RateLimited",
                                    !.limited = @ + 1]
    /\ UNCHANGED <<aside, state, now, clock, reference, mayFail, attempts,
                   attemptIdx, services, deployStatus, codeStatus,
                   partialFailures, perService, clarificationAsked, result>>

\* wait until the reset time, then retry the same request
WaitAndRetry ==
    /\ call.status = "sleeping"
    /\ clock' = clock + call.wait
    /\ call' = [call EXCEPT !.status = "inflight", !.sends = @ + 1,
                            !.resent = RetryRequest(call),
                            !.resentAt = clock + call.wait]
    /\ UNCHANGED <<aside, state, now, reference, mayFail, attempts, attemptIdx,
                   services, deployStatus, codeStatus, partialFailures,
                   perService, clarificationAsked, result>>

\* any other failure: retry once with identical parameters; if the second
\* attempt fails, the call has failed
ReceiveTransportError ==
    /\ call.status = "inflight"
    /\ call' = IF CanRetry(call)
               THEN [call EXCEPT !.sends = @ + 1,
                                 !.resent = RetryRequest(call),
                                 !.resentAt = clock]
               ELSE [call EXCEPT !.status = "failed",
                                 !.failure = "TransportError"]
    /\ UNCHANGED <<aside, state, now, clock, reference, mayFail, attempts,
                   attemptIdx, services, deployStatus, codeStatus,
                   partialFailures, perService, clarificationAsked, result>>

----------------------------------------------------------------------------
(* InvestigationScheduler: SEARCHING *)

\* The entries the scheduler continues with: a failed call has none.
Entries(c) == IF c.status = "ok" THEN c.found ELSE {}

\* Variant: the 24h window is passed over.
NextAttemptSkipping(i) == Min(i + 2, Len(attempts))

\* The window tried after the i-th one came back empty.
NextAttempt(i) == i + 1

\* Variant: the search gives up before the 7-day window.
ExhaustedEarly(i) == i >= Len(attempts) - 1

\* No window is left after the i-th one.
Exhausted(i) == i >= Len(attempts)

\* Variant: the pipelines are launched straight from the search.
CompleteSearchSkipping ==
    /\ state = "SEARCHING"
    /\ call.status \in {"ok", "failed"}
    /\ Entries(call) # {}
    /\ state' = "INVESTIGATING"
    /\ services' = Entries(call)
    /\ call' = IdleCall
    /\ UNCHANGED <<aside, now, clock, reference, mayFail, attempts, attemptIdx,
                   deployStatus, codeStatus, partialFailures, perService,
                   clarificationAsked, result>>

\* logs found: extract the unique services
CompleteSearch ==
    /\ state = "SEARCHING"
    /\ call.status \in {"ok", "failed"}
    /\ Entries(call) # {}
    /\ state' = "SERVICES_IDENTIFIED"
    /\ services' = Entries(call)
    /\ call' = IdleCall
    /\ UNCHANGED <<aside, now, clock, reference, mayFail, attempts, attemptIdx,
                   deployStatus, codeStatus, partialFailures, perService,
                   clarificationAsked, result>>

\* no results: expand the window
ExpandWindow ==
    /\ state = "SEARCHING"
    /\ call.status \in {"ok", "failed"}
    /\ Entries(call) = {}
    /\ ~Exhausted(attemptIdx)
    /\ attemptIdx' = NextAttempt(attemptIdx)
    /\ call' = IdleCall
    /\ UNCHANGED <<aside, state, now, clock, reference, mayFail, attempts, services,
                   deployStatus, codeStatus, partialFailures, perService,
                   clarificationAsked, result>>

\* still no results after the last window: report "no logs found" and ask
\* the user for clarification
ReportNoResults ==
    /\ state = "SEARCHING"
    /\ call.status \in {"ok", "failed"}
    /\ Entries(call) = {}
    /\ Exhausted(attemptIdx)
    /\ state' = "NO_RESULTS"
    /\ clarificationAsked' = TRUE
    /\ call' = IdleCall
    /\ UNCHANGED <<aside, now, clock, reference, mayFail, attempts, attemptIdx,
                   services, deployStatus, codeStatus, partialFailures,
                   perService, result>>

----------------------------------------------------------------------------
(* InvestigationScheduler: INVESTIGATING, one pipeline per service *)

\* all services are submitted to the worker pool
BeginInvestigation ==
    /\ state = "SERVICES_IDENTIFIED"
    /\ state' = "INVESTIGATING"
    /\ UNCHANGED <<aside, now, clock, reference, mayFail, attempts, attemptIdx,
                   call, services, deployStatus, codeStatus, partialFailures,
                   perService, clarificationAsked, result>>

StageDone(st) == st \in {"ok", "failed"}

\* The services whose pipeline holds a worker.
Running == {s \in services : deployStatus[s] # "idle"
                             /\ ~StageDone(codeStatus[s])}

\* ThreadPoolExecutor(max_workers=min(len(services), 5))
PoolSize == Min(Cardinality(services), MaxWorkers)

\* The outcomes of a sub-agent execution for service s.
StageOutcomes(s) == {"ok"} \cup (IF s \in mayFail THEN FailureKinds ELSE {})

\* Variant: the second failure is raised out of the pipeline.
StageNextRaising(st, o) ==
    IF o = "ok" THEN "ok"
    ELSE IF st = "call1" THEN "call2"
    ELSE "raised"

\* A stage's next status on an outcome: retry once, then give up.
StageNext(st, o) ==
    IF o = "ok" THEN "ok"
    ELSE IF st = "call1" THEN "call2"
    ELSE "failed"

\* Variant: the failure is dropped.
RecordNothing(pf, s, stage, reason) == pf

\* Variant: the failure is noted on a list shared by all services.
RecordFailureShared(pf, s, stage, reason) ==
    [t \in DOMAIN pf |-> pf[t] \cup {[stage |-> stage, reason |-> reason]}]

\* The failure is noted on the service's own result.
RecordFailure(pf, s, stage, reason) ==
    [pf EXCEPT ![s] = @ \cup {[stage |-> stage, reason |-> reason]}]

\* Variant: both checkers of a service are launched together.
DeploymentStarted(s) == deployStatus[s] # "idle"

\* Code Checker needs the deployment info: it runs after Deployment Checker.
DeploymentSettled(s) == StageDone(deployStatus[s])

\* a worker picks up the service's task: Deployment Checker is called
StartService(s) ==
    /\ state = "INVESTIGATING"
    /\ s \in services
    /\ deployStatus[s] = "idle"
    /\ Cardinality(Running) < PoolSize
    /\ deployStatus' = [deployStatus EXCEPT ![s] = "call1"]
    /\ UNCHANGED <<aside, state, now, clock, reference, mayFail, attempts,
                   attemptIdx, call, services, codeStatus, partialFailures,
                   perService, clarificationAsked, result>>

\* Deployment Checker returns or fails
DeploymentResponse(s) ==
    /\ state = "INVESTIGATING"
    /\ s \in services
    /\ deployStatus[s] \in {"call1", "call2"}
    /\ \E o \in StageOutcomes(s) :
          LET next == StageNext(deployStatus[s], o) IN
          /\ deployStatus' = [deployStatus EXCEPT ![s] = next]
          /\ partialFailures' =
                IF next = "failed"
                THEN RecordFailure(partialFailures, s, "deployment", o)
                ELSE partialFailures
    /\ UNCHANGED <<aside, state, now, clock, reference, mayFail, attempts,
                   attemptIdx, call, services, codeStatus, perService,
                   clarificationAsked, result>>

\* Code Checker is called with the deployment info
StartCode(s) ==
    /\ state = "INVESTIGATING"
    /\ s \in services
    /\ DeploymentSettled(s)
    /\ codeStatus[s] = "idle"
    /\ codeStatus' = [codeStatus EXCEPT ![s] = "call1"]
    /\ UNCHANGED <<aside, state, now, clock, reference, mayFail, attempts,
                   attemptIdx, call, services, deployStatus, partialFailures,
                   perService, clarificationAsked, result>>

\* Code Checker returns or fails; the service's task ends
CodeResponse(s) ==
    /\ state = "INVESTIGATING"
    /\ s \in services
    /\ codeStatus[s] \in {"call1", "call2"}
    /\ \E o \in StageOutcomes(s) :
          LET next == StageNext(codeStatus[s], o) IN
          /\ codeStatus' = [codeStatus EXCEPT ![s] = next]
          /\ partialFailures' =
                IF next = "failed"
                THEN RecordFailure(partialFailures, s, "code", o)
                ELSE partialFailures
    /\ UNCHANGED <<aside, state, now, clock, reference, mayFail, attempts,
                   attemptIdx, call, services, deployStatus, perService,
                   clarificationAsked, result>>

PipelineStep(s) ==
    \/ StartService(s)
    \/ DeploymentResponse(s)
    \/ StartCode(s)
    \/ CodeResponse(s)

----------------------------------------------------------------------------
(* InvestigationScheduler: AGGREGATING *)

\* every service's task has ended
BeginAggregation ==
    /\ state = "INVESTIGATING"
    /\ \A s \in services : StageDone(codeStatus[s])
    /\ state' = "AGGREGATING"
    /\ UNCHANGED <<aside, now, clock, reference, mayFail, attempts, attemptIdx,
                   call, services, deployStatus, codeStatus, partialFailures,
                   perService, clarificationAsked, result>>

ServiceResult(s) ==
    [service |-> s, deployment |-> deployStatus[s], code |-> codeStatus[s],
     partialFailures |-> partialFailures[s]]

\* Variant: the newest result takes the place of what was merged before.
PutAlone(m, s, r) == [t \in {s} |-> r]

\* The results are keyed by service name.
Put(m, s, r) == [t \in DOMAIN m \cup {s} |-> IF t = s THEN r ELSE m[t]]

\* Variant: the results are kept in the order in which they arrive.
MergeResultAppended(s) ==
    /\ state = "AGGREGATING"
    /\ s \in services
    /\ \A k \in DOMAIN perService : perService[k].service # s
    /\ perService' = Put(perService, Cardinality(DOMAIN perService) + 1,
                         ServiceResult(s))
    /\ UNCHANGED <<aside, state, now, clock, reference, mayFail, attempts,
                   attemptIdx, call, services, deployStatus, codeStatus,
                   partialFailures, clarificationAsked, result>>

\* one service's result is merged
MergeResult(s) ==
    /\ state = "AGGREGATING"
    /\ s \in services
    /\ s \notin DOMAIN perService
    /\ perService' = Put(perService, s, ServiceResult(s))
    /\ UNCHANGED <<aside, state, now, clock, reference, mayFail, attempts,
                   attemptIdx, call, services, deployStatus, codeStatus,
                   partialFailures, clarificationAsked, result>>

\* the investigation result is handed to report generation
Finish ==
    /\ state = "AGGREGATING"
    /\ DOMAIN perService = services
    /\ result' = {[perService |-> perService,
                   searchWindow |-> attempts[attemptIdx],
                   degraded |-> \E s \in services :
                                   perService[s].partialFailures # {}]}
    /\ state' = "DONE"
    /\ UNCHANGED <<aside, now, clock, reference, mayFail, attempts, attemptIdx,
                   call, services, deployStatus, codeStatus, partialFailures,
                   perService, clarificationAsked>>

----------------------------------------------------------------------------
(* Specifications *)

Search ==
    \/ ResolveTimeWindows
    \/ IssueSearch
    \/ ReceiveEntries
    \/ ReceiveRateLimit
    \/ WaitAndRetry
    \/ ReceiveTransportError
    \/ CompleteSearch
    \/ ExpandWindow
    \/ ReportNoResults

Investigate ==
    \/ BeginInvestigation
    \/ \E s \in AllServices : StartService(s)
    \/ \E s \in AllServices : DeploymentResponse(s)
    \/ \E s \in AllServices : StartCode(s)
    \/ \E s \in AllServices : CodeResponse(s)
    \/ BeginAggregation
    \/ \E s \in AllServices : MergeResult(s)
    \/ Finish

Next == Search \/ Investigate

\* The whole run, from the user's input on.
Spec == Init /\ [][Next]_vars

\* The run under a scheduler that lets every pending step happen.
FairSpec == Spec /\ WF_vars(Next)

\* The worker pool with more services than workers: the run from the point
\* where the first window's search has identified PoolServices services, of
\* which only the first one's GitHub calls can fail.
InitPool ==
    /\ now = StartClock
    /\ clock = now
    /\ reference = NoT
    /\ mayFail = {1}
    /\ state = "SERVICES_IDENTIFIED"
    /\ attempts = TimeWindows(reference, now)
    /\ attemptIdx = 1
    /\ call = IdleCall
    /\ services = 1..PoolServices
    /\ deployStatus = [s \in AllServices |-> "idle"]
    /\ codeStatus = [s \in AllServices |-> "idle"]
    /\ partialFailures = [s \in AllServices |-> {}]
    /\ perService = [s \in {} |-> {}]
    /\ clarificationAsked = FALSE
    /\ result = {}
    /\ deadlineExpired = FALSE
    /\ svc = IdleSvc
    /\ fan = IdleFan

SpecPool == InitPool /\ [][Investigate]_vars

\* The resolver alone, over current times and user datetimes before, around
\* and after the current time.
InitWindows ==
    /\ now \in StartClock..(StartClock + ClockSpan)
    /\ reference \in {NoT} \cup {At(t) : t \in (StartClock - RefSpan)
                                                ..(StartClock + RefAhead)}
    /\ mayFail = AllServices
    /\ InitRun
    /\ InitAside

SpecWindows == InitWindows /\ [][ResolveTimeWindows]_vars

----------------------------------------------------------------------------
(* Cancellation: the run's external deadline *)

Finished(s) == StageDone(codeStatus[s])

InFlight(s) ==
    deployStatus[s] \in {"call1", "call2"} \/ codeStatus[s] \in {"call1", "call2"}

\* Variant: calls go on being issued after the deadline.
MayIssueAlways == TRUE

\* New external calls are issued only while the deadline has not expired.
MayIssue == ~deadlineExpired

\* Variant: the run waits for every service's pipeline to end.
AllEndedStrict == \A s \in services : Finished(s)

\* Every service's task has ended, or was halted by the deadline with no
\* call in flight.
AllEnded ==
    \A s \in services : Finished(s) \/ (deadlineExpired /\ ~InFlight(s))

\* A call in flight at the deadline finishes, and is not retried.
StageLast(o) == IF o = "ok" THEN "ok" ELSE "failed"

\* the deadline passes while the services are being investigated
Expire ==
    /\ state \in {"SERVICES_IDENTIFIED", "INVESTIGATING", "AGGREGATING"}
    /\ ~deadlineExpired
    /\ deadlineExpired' = TRUE
    /\ UNCHANGED <<runVars, svc, fan>>

DeadlineStartService(s) == MayIssue /\ StartService(s)

DeadlineStartCode(s) == MayIssue /\ StartCode(s)

DeadlineDeploymentResponse(s) ==
    \/ MayIssue /\ DeploymentResponse(s)
    \/ /\ ~MayIssue
       /\ state = "INVESTIGATING"
       /\ s \in services
       /\ deployStatus[s] \in {"call1", "call2"}
       /\ \E o \in StageOutcomes(s) :
             /\ deployStatus' = [deployStatus EXCEPT ![s] = StageLast(o)]
             /\ partialFailures' =
                   IF o # "ok"
                   THEN RecordFailure(partialFailures, s, "deployment", o)
                   ELSE partialFailures
       /\ UNCHANGED <<aside, state, now, clock, reference, mayFail, attempts,
                      attemptIdx, call, services, codeStatus, perService,
                      clarificationAsked, result>>

DeadlineCodeResponse(s) ==
    \/ MayIssue /\ CodeResponse(s)
    \/ /\ ~MayIssue
       /\ state = "INVESTIGATING"
       /\ s \in services
       /\ codeStatus[s] \in {"call1", "call2"}
       /\ \E o \in StageOutcomes(s) :
             /\ codeStatus' = [codeStatus EXCEPT ![s] = StageLast(o)]
             /\ partialFailures' =
                   IF o # "ok"
                   THEN RecordFailure(partialFailures, s, "code", o)
                   ELSE partialFailures
       /\ UNCHANGED <<aside, state, now, clock, reference, mayFail, attempts,
                      attemptIdx, call, services, deployStatus, perService,
                      clarificationAsked, result>>

\* the pipelines have ended or were halted: the run goes on to aggregate
DeadlineBeginAggregation ==
    /\ state = "INVESTIGATING"
    /\ AllEnded
    /\ state' = "AGGREGATING"
    /\ UNCHANGED <<aside, now, clock, reference, mayFail, attempts,
                   attemptIdx, call, services, deployStatus, codeStatus,
                   partialFailures, perService, clarificationAsked, result>>

\* the services that finished are merged
DeadlineMergeResult(s) == Finished(s) /\ MergeResult(s)

\* the run completes, degraded if the deadline cut it short
DeadlineFinish ==
    /\ state = "AGGREGATING"
    /\ DOMAIN perService = {s \in services : Finished(s)}
    /\ result' = {[perService |-> perService,
                   searchWindow |-> attempts[attemptIdx],
                   degraded |-> \/ deadlineExpired
                                \/ \E s \in DOMAIN perService :
                                      perService[s].partialFailures # {}]}
    /\ state' = "DONE"
    /\ UNCHANGED <<aside, now, clock, reference, mayFail, attempts,
                   attemptIdx, call, services, deployStatus, codeStatus,
                   partialFailures, perService, clarificationAsked>>

NextDeadline ==
    \/ Expire
    \/ BeginInvestigation
    \/ \E s \in AllServices : DeadlineStartService(s)
    \/ \E s \in AllServices : DeadlineDeploymentResponse(s)
    \/ \E s \in AllServices : DeadlineStartCode(s)
    \/ \E s \in AllServices : DeadlineCodeResponse(s)
    \/ DeadlineBeginAggregation
    \/ \E s \in AllServices : DeadlineMergeResult(s)
    \/ DeadlineFinish

\* The run under a deadline, from the point where the search has identified
\* the services.
InitDeadline ==
    /\ now = StartClock
    /\ clock = now
    /\ reference = NoT
    /\ mayFail = AllServices
    /\ state = "SERVICES_IDENTIFIED"
    /\ attempts = TimeWindows(reference, now)
    /\ attemptIdx = 1
    /\ call = IdleCall
    /\ services \in Findings \ {{}}
    /\ deployStatus = [s \in AllServices |-> "idle"]
    /\ codeStatus = [s \in AllServices |-> "idle"]
    /\ partialFailures = [s \in AllServices |-> {}]
    /\ perService = [s \in {} |-> {}]
    /\ clarificationAsked = FALSE
    /\ result = {}
    /\ deadlineExpired = FALSE
    /\ svc = IdleSvc
    /\ fan = IdleFan

SpecDeadline == InitDeadline /\ [][NextDeadline]_vars

FairSpecDeadline == SpecDeadline /\ WF_vars(NextDeadline)

----------------------------------------------------------------------------
(* One service's investigation: deployment, code analysis, exception
   analysis *)

DeploymentOutcomes == {"found", "none", "unavailable"}

\* if result.code_analysis and result.parsed_stack_traces
ShouldAnalyzeException(v) == v.codeAnalysis /\ v.traces > 0

\* deployment_info = deployment_checker.check(service)
CheckDeployment ==
    /\ svc.stage = "logs"
    /\ \E d \in DeploymentOutcomes :
          svc' = [svc EXCEPT !.stage = "deployment", !.deployment = d]
    /\ UNCHANGED <<runVars, deadlineExpired, fan>>

\* code_analysis = code_checker.analyze(service, deployment_info): no
\* analysis, or one with the analyses of the changed files (possibly none)
AnalyzeCode ==
    /\ svc.stage = "deployment"
    /\ \/ svc' = [svc EXCEPT !.stage = "code"]
       \/ \E k \in 0..MaxFiles :
             svc' = [svc EXCEPT !.stage = "code", !.codeAnalysis = TRUE,
                                !.fileAnalyses = k]
    /\ UNCHANGED <<runVars, deadlineExpired, fan>>

\* after code analysis, run exception analysis
RunExceptionAnalysis ==
    /\ svc.stage = "code"
    /\ svc' = [svc EXCEPT !.stage = "done",
                          !.exceptionAnalysis = ShouldAnalyzeException(svc)]
    /\ UNCHANGED <<runVars, deadlineExpired, fan>>

NextService ==
    \/ CheckDeployment
    \/ AnalyzeCode
    \/ RunExceptionAnalysis

\* The service's logs hold any number of parsed stack traces.
InitService ==
    /\ now = StartClock
    /\ reference = NoT
    /\ mayFail = AllServices
    /\ InitRun
    /\ deadlineExpired = FALSE
    /\ fan = IdleFan
    /\ \E n \in 0..MaxTraces : svc = [IdleSvc EXCEPT !.stage = "logs",
                                                      !.traces = n]

SpecService == InitService /\ [][NextService]_vars

----------------------------------------------------------------------------
(* Step 2: session-based retrieval *)

\* What the initial result tells about one session: whether it has an
\* ERROR-level log, its most recent timestamp, its number of entries.
SessionProfiles ==
    [error : BOOLEAN, latest : 1..MaxStamp, count : 1..MaxCount]

\* The profiles told apart by the ERROR level alone.
LevelProfiles == {p \in SessionProfiles : p.latest = 1 /\ p.count = 1}

NoSessionQuery == [status |-> "none", from |-> 0, to |-> 0]

\* Variant: the sessions with the most entries come first.
OutranksByVolume(a, b) ==
    \/ a.count > b.count
    \/ a.count = b.count /\ a.latest > b.latest
    \/ a.count = b.count /\ a.latest = b.latest /\ a.error /\ ~b.error

\* Priority: sessions with ERROR-level logs, then the most recent sessions,
\* then the sessions with most log entries.
Outranks(a, b) ==
    \/ a.error /\ ~b.error
    \/ a.error = b.error /\ a.latest > b.latest
    \/ a.error = b.error /\ a.latest = b.latest /\ a.count > b.count

\* Variant: every unique session is processed.
RetainableAll(sessions, cap) == {DOMAIN sessions}

\* The sets of sessions that may be processed: all of them within the
\* limit, else as many as the limit by priority.
Retainable(sessions, cap) ==
    IF Cardinality(DOMAIN sessions) <= cap THEN {DOMAIN sessions}
    ELSE {R \in SUBSET DOMAIN sessions :
             /\ Cardinality(R) = cap
             /\ \A r \in R : \A d \in DOMAIN sessions \ R :
                   ~Outranks(sessions[d], sessions[r])}

\* The time_window argument of a get_logs_by_efilogid call: the start of the
\* window that found the sessions, or left out ("now-24h").
TimeWindowArgs ==
    {attempts[attemptIdx].from, clock - SessionDefaultHours}

\* from_time=time_window, to_time="now"
SessionQuery(timeWindow) ==
    [status |-> "inflight", from |-> timeWindow, to |-> clock]

\* the unique sessions are limited to the ones to process
SelectSessions ==
    /\ fan.stage = "found"
    /\ \E R \in Retainable(fan.sessions, fan.cap) :
          fan' = [fan EXCEPT !.stage = "selected", !.retained = R]
    /\ UNCHANGED <<runVars, deadlineExpired, svc>>

\* the logs of one session are requested
IssueSessionQuery(sid) ==
    /\ fan.stage = "selected"
    /\ sid \in fan.retained
    /\ fan.queries[sid].status = "none"
    /\ \E tw \in TimeWindowArgs :
          fan' = [fan EXCEPT !.queries[sid] = SessionQuery(tw)]
    /\ UNCHANGED <<runVars, deadlineExpired, svc>>

\* the session's logs, or an error, come back
ReceiveSessionLogs(sid) ==
    /\ fan.stage = "selected"
    /\ sid \in DOMAIN fan.queries
    /\ fan.queries[sid].status = "inflight"
    /\ \E o \in {"ok", "error"} :
          fan' = [fan EXCEPT !.queries[sid].status = o]
    /\ UNCHANGED <<runVars, deadlineExpired, svc>>

\* every session to process has been answered
FinishFanout ==
    /\ fan.stage = "selected"
    /\ \A sid \in fan.retained : fan.queries[sid].status \in {"ok", "error"}
    /\ fan' = [fan EXCEPT !.stage = "combined"]
    /\ UNCHANGED <<runVars, deadlineExpired, svc>>

NextFanout ==
    \/ SelectSessions
    \/ \E sid \in 1..MaxSessions : IssueSessionQuery(sid)
    \/ \E sid \in 1..MaxSessions : ReceiveSessionLogs(sid)
    \/ FinishFanout

\* The run at the point where the search of some window has come back with
\* entries of n sessions; limits are the settings of the number of session
\* queries that may be in flight together (0: none set).
InitFound(profiles, waits, references, limits) ==
    /\ now = StartClock
    /\ clock \in {now + w : w \in waits}
    /\ reference \in references
    /\ mayFail = AllServices
    /\ state = "SEARCHING"
    /\ attempts = TimeWindows(reference, now)
    /\ attemptIdx \in 1..Len(attempts)
    /\ call = [IdleCall EXCEPT !.status = "ok", !.sends = 1,
                               !.request = Query(attemptIdx), !.found = {1}]
    /\ services = {}
    /\ deployStatus = [s \in AllServices |-> "idle"]
    /\ codeStatus = [s \in AllServices |-> "idle"]
    /\ partialFailures = [s \in AllServices |-> {}]
    /\ perService = [s \in {} |-> {}]
    /\ clarificationAsked = FALSE
    /\ result = {}
    /\ deadlineExpired = FALSE
    /\ svc = IdleSvc
    /\ \E n \in 1..MaxSessions : \E ps \in [1..n -> profiles] :
       \E cap \in 1..MaxCap : \E limit \in limits :
          fan = [IdleFan EXCEPT !.stage = "found", !.sessions = ps,
                                !.cap = cap, !.concurrency = limit,
                                !.queries = [i \in 1..n |-> NoSessionQuery]]

\* The retrieval, after a search with or without the user's datetime and
\* with or without a rate-limit wait.
InitFanout ==
    InitFound(LevelProfiles, 0..MaxWait, {NoT, At(StartClock - RefSpan)}, {0})

SpecFanout == InitFanout /\ [][NextFanout]_vars

\* The limit alone, over every profile of the sessions found.
InitRank == InitFound(SessionProfiles, {0}, {NoT}, {0})

SpecRank == InitRank /\ [][SelectSessions]_vars

----------------------------------------------------------------------------
(* Step 2 output: the session results combined with the initial result *)

\* The service that logged the entry with the given id.
ServiceOf(id) == (id % 2) + 1

Entry(id) == [id |-> id, service |-> ServiceOf(id)]

\* The results a search can return: lists of at most n of the entries.
RECURSIVE ResultsUpTo(_)
ResultsUpTo(n) ==
    IF n = 0 THEN {<<>>}
    ELSE ResultsUpTo(n - 1)
         \cup {Append(r, Entry(id)) :
                 r \in {q \in ResultsUpTo(n - 1) : Len(q) = n - 1},
                 id \in 1..MaxEntryIds}

HasEntry(acc, e) == \E i \in 1..Len(acc) : acc[i].id = e.id

\* Variant: the results are combined as they come.
RECURSIVE CombineAll(_, _)
CombineAll(acc, res) ==
    IF res = <<>> THEN acc
    ELSE CombineAll(Append(acc, Head(res)), Tail(res))

\* Combined and deduplicated results: an entry already held is not added.
RECURSIVE Combine(_, _)
Combine(acc, res) ==
    IF res = <<>> THEN acc
    ELSE Combine(IF HasEntry(acc, Head(res)) THEN acc
                 ELSE Append(acc, Head(res)),
                 Tail(res))

\* a session's result is combined with what has been gathered
CombineSessionResult ==
    /\ fan.stage = "combining"
    /\ \E res \in ResultsUpTo(MaxResultLen) :
          fan' = [fan EXCEPT !.last = res,
                             !.again = FALSE,
                             !.before = fan.combined,
                             !.combined = Combine(fan.combined, res)]
    /\ UNCHANGED <<runVars, deadlineExpired, svc>>

\* the same result arrives once more
CombineAgain ==
    /\ fan.stage = "combining"
    /\ fan.last # <<>>
    /\ fan' = [fan EXCEPT !.before = fan.combined,
                          !.again = TRUE,
                          !.combined = Combine(fan.combined, fan.last)]
    /\ UNCHANGED <<runVars, deadlineExpired, svc>>

NextCombine ==
    \/ CombineSessionResult
    \/ CombineAgain

\* Step 1 has returned its entries.
InitCombine ==
    /\ now = StartClock
    /\ reference = NoT
    /\ mayFail = AllServices
    /\ InitRun
    /\ deadlineExpired = FALSE
    /\ svc = IdleSvc
    /\ \E res \in ResultsUpTo(MaxResultLen) :
          fan = [stage |-> "combining", combined |-> Combine(<<>>, res),
                 before |-> <<>>, last |-> res, again |-> FALSE]

SpecCombine == InitCombine /\ [][NextCombine]_vars

----------------------------------------------------------------------------
(* Code Checker: GitHub repository mapping *)

\* A service name is a list of words joined by "-".
Words == {"card", "jobs", "service"}

ServiceNames == UNION {[1..k -> Words] : k \in 1..MaxWords}

LookupOutcomes == {"found", "not_found", "error"}

\* service name contains "jobs"
ContainsJobs(name) == \E i \in 1..Len(name) : name[i] = "jobs"

\* Remove "-jobs" from the service name: every word "jobs" that follows a
\* hyphen goes, a leading "jobs" stays.
RECURSIVE RemoveJobsFrom(_, _)
RemoveJobsFrom(name, i) ==
    IF i > Len(name) THEN <<>>
    ELSE IF i > 1 /\ name[i] = "jobs" THEN RemoveJobsFrom(name, i + 1)
    ELSE <<name[i]>> \o RemoveJobsFrom(name, i + 1)

RemoveJobs(name) == RemoveJobsFrom(name, 1)

\* Variant: the analysis runs whether or not a repository was found.
MayAnalyzeAny(v) == v.stage \in {"resolved", "unresolved"}

\* Code Checker runs on the repository that was found.
MayAnalyze(v) == v.stage = "resolved"

NewResolution(name) ==
    [stage |-> "resolve", name |-> name, primary |-> "pending",
     fallback |-> "none", fallbackName |-> <<>>, lookups |-> 0,
     repo |-> <<>>, failure |-> "none", codeAnalysis |-> FALSE,
     notes |-> {}]

\* 1. attempt to access sunbit-dev/{service-name}
LookupPrimary ==
    /\ svc.stage = "resolve"
    /\ \E o \in LookupOutcomes :
          svc' = [svc EXCEPT
                    !.primary = o,
                    !.lookups = @ + 1,
                    !.repo = IF o = "found" THEN svc.name ELSE @,
                    !.failure = IF o = "error" THEN "Unavailable"
                                ELSE IF o = "not_found"
                                        /\ ~ContainsJobs(svc.name)
                                THEN "RepositoryNotFound" ELSE @,
                    !.stage = IF o = "found" THEN "resolved"
                              ELSE IF o = "not_found"
                                      /\ ContainsJobs(svc.name)
                              THEN "fallback" ELSE "unresolved"]
    /\ UNCHANGED <<runVars, deadlineExpired, fan>>

\* 2. 404 and the name contains "jobs": remove "-jobs" and retry
LookupFallback ==
    /\ svc.stage = "fallback"
    /\ \E o \in LookupOutcomes :
          svc' = [svc EXCEPT
                    !.fallback = o,
                    !.fallbackName = RemoveJobs(svc.name),
                    !.lookups = @ + 1,
                    !.repo = IF o = "found" THEN RemoveJobs(svc.name) ELSE @,
                    !.failure = IF o = "error" THEN "Unavailable"
                                ELSE IF o = "not_found"
                                THEN "RepositoryNotFound" ELSE @,
                    !.stage = IF o = "found" THEN "resolved"
                              ELSE "unresolved"]
    /\ UNCHANGED <<runVars, deadlineExpired, fan>>

\* 3. still not found: log the error, skip Code Checker, note in the report
SkipCodeChecker ==
    /\ svc.stage = "unresolved"
    /\ svc' = [svc EXCEPT
                 !.stage = "done",
                 !.notes = @ \cup {IF svc.failure = "RepositoryNotFound"
                                   THEN "repository not found"
                                   ELSE "unable to retrieve"}]
    /\ UNCHANGED <<runVars, deadlineExpired, fan>>

\* the repository's code is analysed
RunCodeChecker ==
    /\ MayAnalyze(svc)
    /\ svc' = [svc EXCEPT !.stage = "done", !.codeAnalysis = TRUE]
    /\ UNCHANGED <<runVars, deadlineExpired, fan>>

NextRepo ==
    \/ LookupPrimary
    \/ LookupFallback
    \/ SkipCodeChecker
    \/ RunCodeChecker

InitRepo ==
    /\ now = StartClock
    /\ reference = NoT
    /\ mayFail = AllServices
    /\ InitRun
    /\ deadlineExpired = FALSE
    /\ fan = IdleFan
    /\ \E name \in ServiceNames : svc = NewResolution(name)

SpecRepo == InitRepo /\ [][NextRepo]_vars

----------------------------------------------------------------------------
(* Deployment Checker: commits of the kubernetes repository *)

\* dd.version of the error logs: {commit_hash}___{build_number}
Hashes == {"08b9cd7", "08b9cd8", "f0d1e9e"}
Builds == {618, 619}
LogVersion == [hash |-> "08b9cd7", build |-> 618]

\* Commit times around the two ends of the deployment window.
CommitTimes(ref) ==
    {ref - DeploymentWindowHours - 1, ref - DeploymentWindowHours,
     ref - 1, ref, ref + 1}

\* A commit: whether its title contains the service name, the version in
\* its title, its timestamp.
Commits(ref) ==
    [forService : BOOLEAN, hash : Hashes, build : Builds,
     at : CommitTimes(ref)]

RECURSIVE CommitSets(_, _)
CommitSets(ref, n) ==
    IF n = 0 THEN {{}}
    ELSE {S \cup {c} : S \in CommitSets(ref, n - 1), c \in Commits(ref)}
         \cup {{}}

\* 72 hours before the timestamp used to search the logs
InDeploymentWindow(t, ref) ==
    ref - DeploymentWindowHours <= t /\ t <= ref

\* Variant: the build number is not compared.
MatchesHash(c, v) == c.hash = v.hash

\* dd.version equals the second part of the commit title
MatchesVersion(c, v) == c.hash = v.hash /\ c.build = v.build

\* Variant: a missing deployment fails the stage.
NoDeploymentFailed ==
    [failure |-> "deployment", note |-> "no deployment in window"]

\* No deployments found: note in the report, continue.
NoDeployment == [failure |-> "none", note |-> "no deployment in window"]

\* 1.-2. commits whose title contains the service name, within the window
FilterCommits ==
    /\ svc.stage = "commits"
    /\ svc' = [svc EXCEPT
                 !.stage = "deployments",
                 !.deployments =
                    {c \in svc.commits :
                        c.forService /\ InDeploymentWindow(c.at, svc.ref)}]
    /\ UNCHANGED <<runVars, deadlineExpired, fan>>

\* the deployment matching dd.version is looked up in the checker's results
FindDeployment ==
    /\ svc.stage = "deployments"
    /\ LET found == {c \in svc.deployments : MatchesVersion(c, svc.version)}
       IN  \/ \E c \in found :
                svc' = [svc EXCEPT !.stage = "checked", !.deployment = {c}]
           \/ /\ found = {}
              /\ svc' = [svc EXCEPT !.stage = "checked",
                                    !.failure = NoDeployment.failure,
                                    !.notes = @ \cup {NoDeployment.note}]
    /\ UNCHANGED <<runVars, deadlineExpired, fan>>

\* the investigation of the service goes on
ProceedToCode ==
    /\ svc.stage = "checked"
    /\ svc' = [svc EXCEPT
                 !.stage = "code",
                 !.partialFailures = IF svc.failure = "none" THEN @
                                     ELSE @ \cup {svc.failure}]
    /\ UNCHANGED <<runVars, deadlineExpired, fan>>

NextDeployment ==
    \/ FilterCommits
    \/ FindDeployment
    \/ ProceedToCode

InitDeployment ==
    /\ now = StartClock
    /\ reference = NoT
    /\ mayFail = AllServices
    /\ InitRun
    /\ deadlineExpired = FALSE
    /\ fan = IdleFan
    /\ \E cs \in CommitSets(StartClock, MaxCommits) :
          svc = [stage |-> "commits", ref |-> StartClock,
                 version |-> LogVersion, commits |-> cs, deployments |-> {},
                 deployment |-> {}, failure |-> "none", notes |-> {},
                 partialFailures |-> {}]

SpecDeployment == InitDeployment /\ [][NextDeployment]_vars

----------------------------------------------------------------------------
(* Exception analysis: stack frames against the changed lines *)

\* A hunk of the diff: its first line in the deployed file and its length.
Hunks == {h \in [start : 1..MaxLine, len : 1..MaxHunkLen] :
             h.start + h.len - 1 <= MaxLine}

RECURSIVE Diffs(_)
Diffs(n) ==
    IF n = 0 THEN {{}}
    ELSE {d \cup {h} : d \in Diffs(n - 1), h \in Hunks} \cup {{}}

\* The stack traces: the line numbers of the frames, top frame first.
FrameLines == UNION {[1..k -> 1..MaxLine] : k \in 1..MaxFrames}

\* Variant: a hunk's first line is taken for context.
ChangedLinesInner(diff) ==
    UNION {(h.start + 1)..(h.start + h.len - 1) : h \in diff}

\* get_changed_line_numbers: the line numbers that changed
ChangedLines(diff) ==
    UNION {h.start..(h.start + h.len - 1) : h \in diff}

Distance(a, b) == IF a >= b THEN a - b ELSE b - a

\* check_line_in_changes(line_number, diff, proximity=5)
CheckLineInChanges(line, diff) ==
    [is_changed |-> line \in ChangedLines(diff),
     is_nearby |-> \E c \in ChangedLines(diff) :
                      Distance(line, c) <= Proximity]

\* _correlate_line_numbers(frame, file_analysis)
CorrelateLine(line, diff) ==
    LET check == CheckLineInChanges(line, diff) IN
    [stackFrameLine |-> line,
     isDirectMatch |-> check.is_changed,
     nearbyChanges |-> check.is_nearby]

\* Boost confidence to HIGH if a direct line correlation was found.
Confidence(correlations, base) ==
    IF \E i \in 1..Len(correlations) : correlations[i].isDirectMatch
    THEN "HIGH" ELSE base

\* the frames are correlated with the diff, in call-stack order
BuildCallFlow ==
    /\ svc.stage = "trace"
    /\ svc' = [svc EXCEPT
                 !.stage = "correlated",
                 !.correlations =
                    [i \in 1..Len(svc.frames)
                        |-> CorrelateLine(svc.frames[i], svc.diff)]]
    /\ UNCHANGED <<runVars, deadlineExpired, fan>>

\* _determine_root_cause incorporates the exception analysis
DetermineRootCause ==
    /\ svc.stage = "correlated"
    /\ \E base \in {"MEDIUM", "LOW"} :
          svc' = [svc EXCEPT
                    !.stage = "analysed",
                    !.confidence = Confidence(svc.correlations, base)]
    /\ UNCHANGED <<runVars, deadlineExpired, fan>>

NextCorrelation ==
    \/ BuildCallFlow
    \/ DetermineRootCause

InitCorrelation ==
    /\ now = StartClock
    /\ reference = NoT
    /\ mayFail = AllServices
    /\ InitRun
    /\ deadlineExpired = FALSE
    /\ fan = IdleFan
    /\ \E fs \in FrameLines : \E d \in Diffs(MaxHunks) :
          svc = [stage |-> "trace", frames |-> fs, diff |-> d,
                 correlations |-> <<>>, confidence |-> "none"]

SpecCorrelation == InitCorrelation /\ [][NextCorrelation]_vars

----------------------------------------------------------------------------
(* Stack trace parser: the frames of one trace *)

\* The lines below the header of a stack trace: a frame ("at ..."), a
\* chained cause ("Caused by: ...") or anything else ("... 12 more").
LineKinds == {"at", "caused", "other"}

RawTraces == UNION {[1..k -> LineKinds] : k \in 0..MaxRawLines}

\* Variant: a frame is numbered by the line of the trace it stands on.
NewFrameAtLine(frames, pos) ==
    [index |-> pos - 1, is_root_frame |-> pos = 1, line |-> pos]

\* Set index and is_root_frame on each StackFrame: the position in the
\* call stack, 0 = top.
NewFrame(frames, pos) ==
    [index |-> Len(frames), is_root_frame |-> Len(frames) = 0, line |-> pos]

\* parse(): an "at" line becomes the next StackFrame
ParseFrameLine ==
    /\ svc.stage = "parsing"
    /\ svc.pos <= Len(svc.raw)
    /\ svc.raw[svc.pos] = "at"
    /\ svc' = [svc EXCEPT
                 !.pos = @ + 1,
                 !.frames = Append(@, NewFrame(svc.frames, svc.pos))]
    /\ UNCHANGED <<runVars, deadlineExpired, fan>>

\* parse(): any other line adds no frame; "Caused by:" is noted
ParseOtherLine ==
    /\ svc.stage = "parsing"
    /\ svc.pos <= Len(svc.raw)
    /\ svc.raw[svc.pos] # "at"
    /\ svc' = [svc EXCEPT
                 !.pos = @ + 1,
                 !.has_chained_cause = @ \/ svc.raw[svc.pos] = "caused"]
    /\ UNCHANGED <<runVars, deadlineExpired, fan>>

\* parse() returns the ParsedStackTrace
FinishParse ==
    /\ svc.stage = "parsing"
    /\ svc.pos > Len(svc.raw)
    /\ svc' = [svc EXCEPT !.stage = "parsed"]
    /\ UNCHANGED <<runVars, deadlineExpired, fan>>

NextParse ==
    \/ ParseFrameLine
    \/ ParseOtherLine
    \/ FinishParse

InitParse ==
    /\ now = StartClock
    /\ reference = NoT
    /\ mayFail = AllServices
    /\ InitRun
    /\ deadlineExpired = FALSE
    /\ fan = IdleFan
    /\ \E raw \in RawTraces :
          svc = [stage |-> "parsing", raw |-> raw, pos |-> 1,
                 frames |-> <<>>, has_chained_cause |-> FALSE]

SpecParse == InitParse /\ [][NextParse]_vars

----------------------------------------------------------------------------
(* Subagent failures: the retry policy by failure type *)

FailureTypes == {"tool_error", "timeout", "schema_error"}

\* The retry counts of the environment, by failure type.
RetryConfigs == [FailureTypes -> 0..MaxRetries]

\* The defaults of the environment variables.
DefaultRetries ==
    [k \in FailureTypes |->
        CASE k = "tool_error" -> ToolErrorRetries
          [] k = "timeout" -> TimeoutRetries
          [] k = "schema_error" -> SchemaErrorRetries]

\* Variant: the retries made may reach the count and pass it by one.
RetriesLeftInclusive(v, k) == v.retries[k] <= v.config[k]

\* Variant: one retry count, the tool errors', for every failure type.
RetriesLeftUniform(v, k) == v.retries[k] < v.config["tool_error"]

\* The failure type has retries left under the configuration.
RetriesLeft(v, k) == v.retries[k] < v.config[k]

\* the subagent's task ends with valid findings
SubagentSucceeds ==
    /\ svc.stage = "running"
    /\ svc' = [svc EXCEPT !.stage = "done",
                          !.attempts = Append(@, "ok")]
    /\ UNCHANGED <<runVars, deadlineExpired, fan>>

\* Failure type detection: tool error, timeout or schema error
SubagentFails(k) ==
    /\ svc.stage = "running"
    /\ svc' = [svc EXCEPT !.stage = "failed",
                          !.last = k,
                          !.attempts = Append(@, k)]
    /\ UNCHANGED <<runVars, deadlineExpired, fan>>

\* Apply retry policy based on failure type
RetrySubagent ==
    /\ svc.stage = "failed"
    /\ RetriesLeft(svc, svc.last)
    /\ svc' = [svc EXCEPT !.stage = "running",
                          !.retries[svc.last] = @ + 1]
    /\ UNCHANGED <<runVars, deadlineExpired, fan>>

\* After exhausting retries, continue with partial data; the failure goes
\* to the log and to the failure summary of the report.
ContinueWithPartialData ==
    /\ svc.stage = "failed"
    /\ ~RetriesLeft(svc, svc.last)
    /\ svc' = [svc EXCEPT !.stage = "degraded",
                          !.failures = @ \cup {svc.last}]
    /\ UNCHANGED <<runVars, deadlineExpired, fan>>

NextRetry ==
    \/ SubagentSucceeds
    \/ \E k \in FailureTypes : SubagentFails(k)
    \/ RetrySubagent
    \/ ContinueWithPartialData

InitRetry ==
    /\ now = StartClock
    /\ reference = NoT
    /\ mayFail = AllServices
    /\ InitRun
    /\ deadlineExpired = FALSE
    /\ fan = IdleFan
    /\ \E config \in RetryConfigs :
          svc = [stage |-> "running", config |-> config,
                 retries |-> [k \in FailureTypes |-> 0],
                 attempts |-> <<>>, last |-> "none", failures |-> {}]

SpecRetry == InitRetry /\ [][NextRetry]_vars

----------------------------------------------------------------------------
(* Step 2 under a limit on the session queries in flight *)

\* The session queries sent and not yet answered.
QueriesInFlight(v) ==
    Cardinality({sid \in DOMAIN v.queries :
                    v.queries[sid].status = "inflight"})

\* Variant: a session query is sent whenever a session awaits one.
MayIssueQueryAlways(v) == TRUE

\* A session query may be sent while fewer than the limit are in flight.
MayIssueQuery(v) == QueriesInFlight(v) < v.concurrency

\* the logs of one session are requested, within the limit
IssueSessionQueryCapped(sid) ==
    /\ MayIssueQuery(fan)
    /\ IssueSessionQuery(sid)

NextFanoutCapped ==
    \/ SelectSessions
    \/ \E sid \in 1..MaxSessions : IssueSessionQueryCapped(sid)
    \/ \E sid \in 1..MaxSessions : ReceiveSessionLogs(sid)
    \/ FinishFanout

InitFanoutCapped ==
    InitFound(LevelProfiles, {0}, {NoT}, 1..MaxConcurrency)

SpecFanoutCapped == InitFanoutCapped /\ [][NextFanoutCapped]_vars

----------------------------------------------------------------------------
(* SearchResult: the entries gathered and what is extracted from them *)

\* The session (efilogid) the entry with the given id belongs to.
SessionOf(id) == (id + 1) \div 2

\* A result as log entries with service and session.
LogEntries(res) ==
    [i \in DOMAIN res |->
        [id |-> res[i].id, service |-> res[i].service,
         efilogid |-> SessionOf(res[i].id)]]

\* Variant: the services are taken before the newest entry is added.
UniqueServicesStale(entries) ==
    {entries[i].service : i \in 1..(Len(entries) - 1)}

\* Extract unique services
UniqueServices(entries) == {entries[i].service : i \in DOMAIN entries}

\* Extract unique efilogids
UniqueSessionIds(entries) == {entries[i].efilogid : i \in DOMAIN entries}

SearchResultOf(entries, res) ==
    [stage |-> "gathering", entries |-> entries, last |-> res,
     uniqueServices |-> UniqueServices(entries),
     uniqueSessionIds |-> UniqueSessionIds(entries)]

\* a result is added to the entries gathered
AccumulateResult ==
    /\ fan.stage = "gathering"
    /\ \E res \in ResultsUpTo(MaxResultLen) :
          fan' = SearchResultOf(Combine(fan.entries, LogEntries(res)), res)
    /\ UNCHANGED <<runVars, deadlineExpired, svc>>

\* a new search starts from no entries
ResetSearchResult ==
    /\ fan.stage = "gathering"
    /\ fan.entries # <<>>
    /\ fan' = SearchResultOf(<<>>, <<>>)
    /\ UNCHANGED <<runVars, deadlineExpired, svc>>

NextSearchResult ==
    \/ AccumulateResult
    \/ ResetSearchResult

InitSearchResult ==
    /\ now = StartClock
    /\ reference = NoT
    /\ mayFail = AllServices
    /\ InitRun
    /\ deadlineExpired = FALSE
    /\ svc = IdleSvc
    /\ fan = SearchResultOf(<<>>, <<>>)

SpecSearchResult == InitSearchResult /\ [][NextSearchResult]_vars

----------------------------------------------------------------------------
(* Exception analysis: the confidence of the root cause *)

\* The frames of a trace with their line and whether they are Sunbit code.
OwnedFrames ==
    UNION {[1..k -> [line : 1..MaxLine, is_sunbit_code : BOOLEAN]] :
              k \in 1..MaxFrames}

\* The diffs of one changed file: no hunk or one.
FileDiffs == {{}} \cup {{h} : h \in Hunks}

NoCorrelation ==
    [stackFrameLine |-> 0, isDirectMatch |-> FALSE, nearbyChanges |-> FALSE]

\* _build_call_flow: a step of Sunbit code carries its line correlation,
\* any other step carries none.
CallFlowStep(frame, diff) ==
    [is_sunbit_code |-> frame.is_sunbit_code,
     correlation |-> IF frame.is_sunbit_code
                     THEN CorrelateLine(frame.line, diff)
                     ELSE NoCorrelation]

\* The confidence without a direct line correlation.
BaseConfidence(callFlow) ==
    IF \E i \in 1..Len(callFlow) :
          /\ callFlow[i].is_sunbit_code
          /\ callFlow[i].correlation.nearbyChanges
    THEN "MEDIUM" ELSE "LOW"

\* Boost confidence to HIGH if a direct line correlation was found.
RootCauseConfidence(callFlow) ==
    Confidence([i \in 1..Len(callFlow) |-> callFlow[i].correlation],
               BaseConfidence(callFlow))

BuildOwnedCallFlow ==
    /\ svc.stage = "trace"
    /\ svc' = [svc EXCEPT
                 !.stage = "correlated",
                 !.call_flow = [i \in 1..Len(svc.frames)
                                   |-> CallFlowStep(svc.frames[i], svc.diff)]]
    /\ UNCHANGED <<runVars, deadlineExpired, fan>>

RateRootCause ==
    /\ svc.stage = "correlated"
    /\ svc' = [svc EXCEPT
                 !.stage = "analysed",
                 !.confidence = RootCauseConfidence(svc.call_flow)]
    /\ UNCHANGED <<runVars, deadlineExpired, fan>>

NextConfidence ==
    \/ BuildOwnedCallFlow
    \/ RateRootCause

InitConfidence ==
    /\ now = StartClock
    /\ reference = NoT
    /\ mayFail = AllServices
    /\ InitRun
    /\ deadlineExpired = FALSE
    /\ fan = IdleFan
    /\ \E fs \in OwnedFrames : \E d \in FileDiffs :
          svc = [stage |-> "trace", frames |-> fs, diff |-> d,
                 call_flow |-> <<>>, confidence |-> "none"]

SpecConfidence == InitConfidence /\ [][NextConfidence]_vars

----------------------------------------------------------------------------
(* One search of the DataDog sub-agent, with both of its retries *)

\* The requests of one search, as the sub-agent's retry (around execute)
\* and the rate-limit handling (inside it) send them.
NewExecution(request) ==
    [stage |-> "executing", request |-> request, executions |-> 1,
     sends |-> 1, waited |-> FALSE, wait |-> 0, log |-> <<>>,
     failure |-> "none"]

\* result = sub_agent.execute(): the request is answered with entries
ExecuteReturns ==
    /\ svc.stage = "executing"
    /\ svc' = [svc EXCEPT !.stage = "done", !.log = Append(@, "ok")]
    /\ UNCHANGED <<runVars, deadlineExpired, fan>>

\* When 429 received: compute the wait; if rate limited again after the
\* wait, the error is reported and the search continues with partial results
ExecuteRateLimited ==
    /\ svc.stage = "executing"
    /\ \E wait \in 1..MaxWait :
          svc' = IF ~svc.waited
                 THEN [svc EXCEPT !.stage = "sleeping", !.wait = wait,
                                  !.log = Append(@, "429")]
                 ELSE [svc EXCEPT !.stage = "failed",
                                  !.failure = "RateLimited",
                                  !.log = Append(@, "429")]
    /\ UNCHANGED <<runVars, deadlineExpired, fan>>

\* Wait until reset, retry request once
ExecuteRetriesAfterReset ==
    /\ svc.stage = "sleeping"
    /\ svc' = [svc EXCEPT !.stage = "executing", !.sends = @ + 1,
                          !.waited = TRUE]
    /\ UNCHANGED <<runVars, deadlineExpired, fan>>

\* except Exception: log_error(e); result = sub_agent.execute()  (retry once
\* with same parameters); if failed_again: return partial_results
ExecuteRaises ==
    /\ svc.stage = "executing"
    /\ svc' = IF svc.executions <= RetryLimit
              THEN [svc EXCEPT !.executions = @ + 1, !.sends = @ + 1,
                               !.waited = FALSE,
                               !.log = Append(@, "error")]
              ELSE [svc EXCEPT !.stage = "failed",
                               !.failure = "TransportError",
                               !.log = Append(@, "error")]
    /\ UNCHANGED <<runVars, deadlineExpired, fan>>

NextSearchCall ==
    \/ ExecuteReturns
    \/ ExecuteRateLimited
    \/ ExecuteRetriesAfterReset
    \/ ExecuteRaises

InitSearchCall ==
    /\ now = StartClock
    /\ reference = NoT
    /\ mayFail = AllServices
    /\ InitRun
    /\ deadlineExpired = FALSE
    /\ fan = IdleFan
    /\ \E i \in DOMAIN TimeWindows(NoT, StartClock) :
          svc = NewExecution(i)

SpecSearchCall == InitSearchCall /\ [][NextSearchCall]_vars

----------------------------------------------------------------------------
(* Process claude-agent-sdk-rewrite: six phases with gate breakpoints *)

\* What the tasks of a phase report: the quality score and whether the
\* phase's other criteria (test count, integration tests, validation,
\* convergence and comparison, security and smoke tests) are met.
PhaseOutcomes ==
    [quality : {TargetQuality - 1, TargetQuality}, criteria : BOOLEAN]

\* gatePassed as returned by runPhase1 .. runPhase6
GatePassed(phase, o) ==
    CASE phase = 1 -> o.quality >= TargetQuality
      [] phase \in {2, 4} -> o.quality >= TargetQuality /\ o.criteria
      [] OTHER -> o.criteria

\* success: phaseResults.every(p => p.gatePassed)
EveryGatePassed(phaseResults) ==
    \A i \in 1..Len(phaseResults) : phaseResults[i].gatePassed

\* if (skipToPhase <= n) { phaseNResult = await runPhaseN(...);
\* phaseResults.push(...); the gate breakpoint is opened
RunPhase ==
    /\ svc.stage = "phase"
    /\ svc.phase <= PhaseCount
    /\ svc.skipToPhase <= svc.phase
    /\ \E o \in PhaseOutcomes :
          svc' = [svc EXCEPT
                    !.stage = "breakpoint",
                    !.phaseResults =
                       Append(@, [phase |-> svc.phase,
                                  quality |-> o.quality,
                                  gatePassed |-> GatePassed(svc.phase, o)])]
    /\ UNCHANGED <<runVars, deadlineExpired, fan>>

\* skipToPhase > n: the phase and its breakpoint are passed over
SkipPhase ==
    /\ svc.stage = "phase"
    /\ svc.phase <= PhaseCount
    /\ svc.skipToPhase > svc.phase
    /\ svc' = [svc EXCEPT !.phase = @ + 1]
    /\ UNCHANGED <<runVars, deadlineExpired, fan>>

\* await ctx.breakpoint(...) returns: the gate review was approved
ApproveBreakpoint ==
    /\ svc.stage = "breakpoint"
    /\ svc' = [svc EXCEPT !.stage = "phase", !.phase = @ + 1]
    /\ UNCHANGED <<runVars, deadlineExpired, fan>>

\* return { success, phases, finalQuality, targetQuality }
ReturnRewrite ==
    /\ svc.stage = "phase"
    /\ svc.phase > PhaseCount
    /\ svc' = [svc EXCEPT !.stage = "returned",
                          !.success = EveryGatePassed(svc.phaseResults)]
    /\ UNCHANGED <<runVars, deadlineExpired, fan>>

NextRewrite ==
    \/ RunPhase
    \/ SkipPhase
    \/ ApproveBreakpoint
    \/ ReturnRewrite

InitRewrite ==
    /\ now = StartClock
    /\ reference = NoT
    /\ mayFail = AllServices
    /\ InitRun
    /\ deadlineExpired = FALSE
    /\ fan = IdleFan
    /\ \E skip \in 1..PhaseCount :
          svc = [stage |-> "phase", phase |-> 1, skipToPhase |-> skip,
                 phaseResults |-> <<>>, success |-> FALSE]

SpecRewrite == InitRewrite /\ [][NextRewrite]_vars

----------------------------------------------------------------------------
(* Process production-issue-investigator: five phases and integration *)

\* Variant: the phases' verifications alone decide.
BuildSuccessByPhases(phaseResults, integrationTestResult) ==
    \A i \in 1..Len(phaseResults) : phaseResults[i].success

\* success: phaseResults.every(p => p.success) &&
\* integrationTestResult.allPassed
BuildSuccess(phaseResults, integrationTestResult) ==
    /\ \A i \in 1..Len(phaseResults) : phaseResults[i].success
    /\ integrationTestResult.allPassed

\* await ctx.breakpoint: 'Starting Phase n ... Ready to proceed?'
ApprovePhaseStart ==
    /\ svc.stage = "start"
    /\ svc' = [svc EXCEPT !.stage = "implement"]
    /\ UNCHANGED <<runVars, deadlineExpired, fan>>

\* implementPhaseNTask, verifyPhaseNTask, phaseResults.push; a failed
\* verification of the phases before the last opens a breakpoint
ImplementAndVerifyPhase ==
    /\ svc.stage = "implement"
    /\ \E allPassed \in BOOLEAN :
          svc' = [svc EXCEPT
                    !.phaseResults =
                       Append(@, [phase |-> svc.phase, success |-> allPassed]),
                    !.stage =
                       IF ~allPassed /\ svc.phase < BuildPhases
                       THEN "failed_review"
                       ELSE IF svc.phase < BuildPhases THEN "start"
                       ELSE "integration_review",
                    !.phase =
                       IF ~allPassed /\ svc.phase < BuildPhases
                       THEN @ ELSE @ + 1]
    /\ UNCHANGED <<runVars, deadlineExpired, fan>>

\* await ctx.breakpoint: 'Phase n verification failed ... Review and fix
\* issues before proceeding?', then on to the next phase
ApproveAfterFailure ==
    /\ svc.stage = "failed_review"
    /\ svc' = [svc EXCEPT !.stage = "start", !.phase = @ + 1]
    /\ UNCHANGED <<runVars, deadlineExpired, fan>>

\* the breakpoint before the integration test, and runIntegrationTestTask
RunIntegrationTest ==
    /\ svc.stage = "integration_review"
    /\ \E allPassed \in BOOLEAN :
          svc' = [svc EXCEPT
                    !.stage = "final_review",
                    !.integrationTestResult = [ran |-> TRUE,
                                               allPassed |-> allPassed]]
    /\ UNCHANGED <<runVars, deadlineExpired, fan>>

\* the final breakpoint, and return { success, phases, artifacts, ... }
ReturnBuild ==
    /\ svc.stage = "final_review"
    /\ svc' = [svc EXCEPT
                 !.stage = "returned",
                 !.success = BuildSuccess(svc.phaseResults,
                                          svc.integrationTestResult)]
    /\ UNCHANGED <<runVars, deadlineExpired, fan>>

NextBuild ==
    \/ ApprovePhaseStart
    \/ ImplementAndVerifyPhase
    \/ ApproveAfterFailure
    \/ RunIntegrationTest
    \/ ReturnBuild

InitBuild ==
    /\ now = StartClock
    /\ reference = NoT
    /\ mayFail = AllServices
    /\ InitRun
    /\ deadlineExpired = FALSE
    /\ fan = IdleFan
    /\ svc = [stage |-> "start", phase |-> 1, phaseResults |-> <<>>,
              integrationTestResult |-> [ran |-> FALSE, allPassed |-> FALSE],
              success |-> FALSE]

SpecBuild == InitBuild /\ [][NextBuild]_vars

----------------------------------------------------------------------------
(* The quality-convergence loops of the processes *)

\* The loops: efilogid-escape-fix (phase 3), add-http-logging (phase 3)
\* and claude-agent-sdk-rewrite (runPhase5, which also asks for the
\* critical path coverage and for passing tests).
ConvergenceLoops ==
    {[process |-> "efilogid-escape-fix", maxIterations |-> 3,
      target |-> 90, furtherCriteria |-> FALSE],
     [process |-> "add-http-logging", maxIterations |-> 5,
      target |-> 85, furtherCriteria |-> FALSE],
     [process |-> "claude-agent-sdk-rewrite", maxIterations |-> 5,
      target |-> 85, furtherCriteria |-> TRUE]}

\* What the measurement of an iteration can report.
Measurements(loop) ==
    [quality : {loop.target - 1, loop.target},
     passed : IF loop.furtherCriteria THEN BOOLEAN ELSE {TRUE}]

\* currentQuality >= targetQuality; in runPhase5: overallCoverage >= 85 &&
\* criticalPathCoverage >= 95 && testRunResult.passed
MeetsTarget(loop, m) == m.quality >= loop.target /\ m.passed

\* Variant: the loop is entered once more at the limit.
LoopContinuesInclusive(v) ==
    v.iteration <= v.loop.maxIterations /\ ~v.converged

\* while (iteration < maxIterations && !converged)
LoopContinues(v) == v.iteration < v.loop.maxIterations /\ ~v.converged

\* Variant: every missed target is followed by the refine task.
MayRefineAlways(v, m) == ~MeetsTarget(v.loop, m)

\* else if (iteration < maxIterations): the refine task
MayRefine(v, m) ==
    ~MeetsTarget(v.loop, m) /\ v.iteration < v.loop.maxIterations

\* the loop condition holds: iteration++
EnterIteration ==
    /\ svc.pc = "while"
    /\ LoopContinues(svc)
    /\ svc' = [svc EXCEPT !.pc = "measure", !.iteration = @ + 1]
    /\ UNCHANGED <<runVars, deadlineExpired, fan>>

\* the measurement task of the iteration, and the if / else if after it
MeasureQuality ==
    /\ svc.pc = "measure"
    /\ \E m \in Measurements(svc.loop) :
          svc' = [svc EXCEPT
                    !.measurements = Append(@, m),
                    !.currentQuality = m.quality,
                    !.converged = MeetsTarget(svc.loop, m),
                    !.pc = IF MayRefine(svc, m) THEN "refine" ELSE "while"]
    /\ UNCHANGED <<runVars, deadlineExpired, fan>>

\* await ctx.task(refine...Task, { iteration, ... })
RefineImplementation ==
    /\ svc.pc = "refine"
    /\ svc' = [svc EXCEPT !.pc = "while",
                          !.refined = @ \cup {svc.iteration}]
    /\ UNCHANGED <<runVars, deadlineExpired, fan>>

\* the loop is left; the process goes on and returns iterations: iteration
LeaveLoop ==
    /\ svc.pc = "while"
    /\ ~LoopContinues(svc)
    /\ svc' = [svc EXCEPT !.pc = "returned", !.iterations = svc.iteration]
    /\ UNCHANGED <<runVars, deadlineExpired, fan>>

NextConverge ==
    \/ EnterIteration
    \/ MeasureQuality
    \/ RefineImplementation
    \/ LeaveLoop

InitConverge ==
    /\ now = StartClock
    /\ reference = NoT
    /\ mayFail = AllServices
    /\ InitRun
    /\ deadlineExpired = FALSE
    /\ fan = IdleFan
    /\ \E loop \in ConvergenceLoops :
          svc = [pc |-> "while", loop |-> loop, iteration |-> 0,
                 currentQuality |-> 0, converged |-> FALSE,
                 measurements |-> <<>>, refined |-> {}, iterations |-> 0]

SpecConverge == InitConverge /\ [][NextConverge]_vars

\* Every task of the loop ends, so a pending step of the loop is taken.
FairSpecConverge == SpecConverge /\ WF_vars(NextConverge)

----------------------------------------------------------------------------
(* Process mcp-tools-fix: ten tasks and four verifications *)

\* The tasks in the order of the process: task1 .. task10, then mcpTests,
\* leadTests, allTests (shell tasks running pytest) and appStartup (agent).
McpFixTaskKinds ==
    [i \in 1..(ImplementationTasks + VerificationTasks) |->
        IF i \in (ImplementationTasks + 1)..(ImplementationTasks + 3)
        THEN "shell" ELSE "agent"]

\* Phase 0: await ctx.breakpoint 'Approve MCP Tools Fix Implementation'
ApproveMcpFix ==
    /\ svc.stage = "review"
    /\ svc' = [svc EXCEPT !.stage = "tasks"]
    /\ UNCHANGED <<runVars, deadlineExpired, fan>>

\* const taskN = await ctx.task(...): the task reports success or failure
RunMcpFixTask ==
    /\ svc.stage = "tasks"
    /\ Len(svc.results) < Len(McpFixTaskKinds)
    /\ \E success \in BOOLEAN :
          svc' = [svc EXCEPT !.results = Append(@, success)]
    /\ UNCHANGED <<runVars, deadlineExpired, fan>>

\* a failing shell command may instead reject the awaited task: the
\* process ends without a return value
ShellTaskThrows ==
    /\ svc.stage = "tasks"
    /\ Len(svc.results) < Len(McpFixTaskKinds)
    /\ McpFixTaskKinds[Len(svc.results) + 1] = "shell"
    /\ svc' = [svc EXCEPT !.stage = "thrown"]
    /\ UNCHANGED <<runVars, deadlineExpired, fan>>

\* return { status: 'success', phases: {...}, message: ... }
ReturnMcpFix ==
    /\ svc.stage = "tasks"
    /\ Len(svc.results) = Len(McpFixTaskKinds)
    /\ svc' = [svc EXCEPT !.stage = "returned", !.status = "success"]
    /\ UNCHANGED <<runVars, deadlineExpired, fan>>

NextMcpFix ==
    \/ ApproveMcpFix
    \/ RunMcpFixTask
    \/ ShellTaskThrows
    \/ ReturnMcpFix

InitMcpFix ==
    /\ now = StartClock
    /\ reference = NoT
    /\ mayFail = AllServices
    /\ InitRun
    /\ deadlineExpired = FALSE
    /\ fan = IdleFan
    /\ svc = [stage |-> "review", results |-> <<>>, status |-> "none"]

SpecMcpFix == InitMcpFix /\ [][NextMcpFix]_vars

----------------------------------------------------------------------------
(* Properties *)

StageStatus(stage, s) ==
    IF stage = "deployment" THEN deployStatus[s] ELSE codeStatus[s]

Stages == {"deployment", "code"}

Transitions ==
    {<<"SEARCHING", "SERVICES_IDENTIFIED">>,
     <<"SERVICES_IDENTIFIED", "INVESTIGATING">>,
     <<"INVESTIGATING", "AGGREGATING">>,
     <<"AGGREGATING", "DONE">>,
     <<"SEARCHING", "NO_RESULTS">>}

\* C1: the scheduler state changes only along SEARCHING ->
\* SERVICES_IDENTIFIED -> INVESTIGATING -> AGGREGATING -> DONE or from
\* SEARCHING to NO_RESULTS; no state is skipped or revisited, and DONE and
\* NO_RESULTS are never left.
C1_StateMachine ==
    [][state' # state => <<state, state'>> \in Transitions]_vars

C1_Witness == state = "DONE" /\ result # {}

\* C2: every resolved time window, the first one included, ends no later
\* than the wall-clock time at which resolution started, and so does every
\* request sent to the backend.
C2_NoFutureQuery ==
    /\ \A i \in DOMAIN attempts : attempts[i].to <= now
    /\ call.sends > 0 => call.request.to <= now

Waiting(s) ==
    deployStatus[s] \in {"call1", "call2"} \/ codeStatus[s] \in {"call1", "call2"}

\* C4: whenever one service's pipeline is waiting on an external call or a
\* retry, every other identified service whose pipeline has not ended can
\* take its next step.
C4_NoServiceBlocked ==
    \A s, t \in services :
        (state = "INVESTIGATING" /\ s # t /\ Waiting(t)
            /\ ~StageDone(codeStatus[s]))
        => ENABLED PipelineStep(s)

\* C5: every run whose search found at least one entry eventually reaches
\* DONE with an InvestigationResult, whatever stage failures occur.
C5_EventuallyDone ==
    (services # {}) ~> (state = "DONE" /\ result # {})

C5_Witness ==
    /\ state = "DONE"
    /\ \E r \in result : \E s \in services :
          {f.stage : f \in r.perService[s].partialFailures} = Stages

\* C6: a stage that has failed after its one retry has its stage and reason
\* in that service's partialFailures, and the pipeline and the run go on:
\* Code Checker can still start and the run is in one of its own states.
C6_FailureRecorded ==
    \A s \in services : \A stage \in Stages :
        StageStatus(stage, s) = "failed" =>
            /\ \E f \in partialFailures[s] :
                  f.stage = stage /\ f.reason \in FailureKinds
            /\ state \in {"INVESTIGATING", "AGGREGATING", "DONE"}
            /\ (stage = "deployment" /\ codeStatus[s] = "idle")
                  => ENABLED StartCode(s)

C6_Witness ==
    /\ state = "DONE"
    /\ \E s \in services :
          deployStatus[s] = "failed" /\ codeStatus[s] = "ok"

\* C7: a service carries only the failures of its own stages: when the
\* deployment lookup of X fails after its retry, a service Y whose own
\* stages succeeded is merged with no failure at all.
C7_FailureIsolated ==
    /\ \A s \in AllServices : \A f \in partialFailures[s] :
          StageStatus(f.stage, s) = "failed"
    /\ \A s \in DOMAIN perService :
          /\ StageDone(perService[s].code)
          /\ \A f \in perService[s].partialFailures :
                StageStatus(f.stage, s) = "failed"

C7_Witness ==
    /\ state = "DONE"
    /\ \E x, y \in services :
          /\ x # y
          /\ \E f \in perService[x].partialFailures : f.stage = "deployment"
          /\ perService[y].partialFailures = {}
          /\ perService[y].deployment = "ok"
          /\ perService[y].code = "ok"

LastAttemptEmpty ==
    /\ state = "SEARCHING"
    /\ call.status \in {"ok", "failed"}
    /\ Entries(call) = {}
    /\ attemptIdx = Len(attempts)

\* C10: when the last window yields zero entries the run goes to NO_RESULTS
\* with zero services and the user asked for clarification; NO_RESULTS is
\* entered only so, and from then on no search is sent and nothing changes.
C10_Exhausted ==
    [][/\ LastAttemptEmpty =>
             /\ state' = "NO_RESULTS"
             /\ services' = {}
             /\ clarificationAsked'
             /\ result' = {}
       /\ state' = "NO_RESULTS" => LastAttemptEmpty
       /\ state # "NO_RESULTS"]_vars

C10_Witness ==
    state = "NO_RESULTS" /\ clarificationAsked /\ attemptIdx = Len(attempts)

\* C11: the windows are searched in list order, one after the other, each
\* only after the one before it came back empty; the request sent is that of
\* the current window, and once a result is non-empty the search is over: the
\* run leaves SEARCHING and no wider window is queried.
C11_InOrder ==
    [][/\ attemptIdx' # attemptIdx =>
             /\ attemptIdx' = attemptIdx + 1
             /\ attemptIdx > 0 =>
                   call.status \in {"ok", "failed"} /\ Entries(call) = {}
       /\ (call.sends = 0 /\ call'.sends = 1) =>
             call'.request = [attempt |-> attemptIdx,
                              from |-> attempts[attemptIdx].from,
                              to |-> attempts[attemptIdx].to]
       /\ (call.status = "ok" /\ call.found # {}) =>
             state' # "SEARCHING" /\ call'.sends = 0
       /\ state # "SEARCHING" => call'.sends = 0]_vars

C11_Witness ==
    state = "SERVICES_IDENTIFIED" /\ attemptIdx = 2 /\ services # {}

C13_WindowsWithoutReference ==
    (attempts # <<>> /\ ~reference.given) =>
        attempts = <<[from |-> now - 4, to |-> now],
                     [from |-> now - 24, to |-> now],
                     [from |-> now - 168, to |-> now]>>

C13_Witness ==
    attempts # <<>> /\ ~reference.given /\ attempts[3].from = now - 168

\* C14: once the deadline has expired no pipeline issues an external call,
\* first call or retry, and no search request is sent; a call already in
\* flight may still come back.
C14_NoCallAfterDeadline ==
    [][deadlineExpired =>
          /\ \A s \in AllServices :
                /\ deployStatus'[s] \in {"call1", "call2"}
                      => deployStatus'[s] = deployStatus[s]
                /\ codeStatus'[s] \in {"call1", "call2"}
                      => codeStatus'[s] = codeStatus[s]
          /\ call'.sends <= call.sends]_vars

C14_Witness ==
    /\ deadlineExpired
    /\ state = "DONE"
    /\ \E s \in services : deployStatus[s] = "ok" /\ codeStatus[s] = "idle"

\* C15: after the deadline has expired the run still reaches DONE, with a
\* result that is degraded and holds exactly the services whose pipeline had
\* finished, each with its own outcome.
C15_DegradedCompletion ==
    deadlineExpired ~>
        /\ state = "DONE"
        /\ result =
              {[perService |-> [s \in {t \in services : Finished(t)}
                                  |-> ServiceResult(s)],
                searchWindow |-> attempts[attemptIdx],
                degraded |-> TRUE]}

C15_Witness ==
    /\ deadlineExpired
    /\ state = "DONE"
    /\ \E r \in result :
          /\ r.degraded
          /\ DOMAIN r.perService # {}
          /\ DOMAIN r.perService # services

\* C16: every merged result sits under its own service's name, and the
\* final result is determined by the services' outcomes alone: whatever the
\* order in which the pipelines ended and were merged, it maps each service
\* to that service's result.
C16_KeyedByService ==
    /\ \A s \in DOMAIN perService :
          s \in services /\ perService[s] = ServiceResult(s)
    /\ state = "DONE" =>
          result = {[perService |-> [s \in services |-> ServiceResult(s)],
                     searchWindow |-> attempts[attemptIdx],
                     degraded |-> \E s \in services :
                                     partialFailures[s] # {}]}

C16_Witness ==
    /\ state = "DONE"
    /\ \E r \in result : \E s, t \in services :
          /\ r.perService[s].deployment = "failed"
          /\ r.perService[t].deployment = "ok"
          /\ r.perService[t].code = "failed"

\* C17: a service's root cause (its exception analysis) is populated only
\* if its deployment was found and it has at least one file analysis.
C17_RootCauseGuard ==
    svc.exceptionAnalysis =>
        svc.deployment = "found" /\ svc.fileAnalyses >= 1

Queried == {sid \in DOMAIN fan.queries : fan.queries[sid].status # "none"}

Dropped == DOMAIN fan.sessions \ fan.retained

Truncated ==
    fan.stage # "found" /\ Cardinality(DOMAIN fan.sessions) > fan.cap

\* Session a comes strictly before session b in the ranking: ERROR-level
\* presence first, then the most recent timestamp, then the entry count.
Dominates(a, b) ==
    LET x == fan.sessions[a]
        y == fan.sessions[b]
        e(p) == IF p.error THEN 1 ELSE 0
    IN  \/ e(x) > e(y)
        \/ e(x) = e(y) /\ x.latest > y.latest
        \/ e(x) = e(y) /\ x.latest = y.latest /\ x.count > y.count

C20_SameWindow ==
    \A sid \in Queried :
        /\ fan.queries[sid].from = attempts[attemptIdx].from
        /\ fan.queries[sid].to = attempts[attemptIdx].to

Ids(entries) == {entries[i].id : i \in 1..Len(entries)}

\* C21: the combined result holds every entry id once, holds exactly the
\* ids gathered so far, and combining the same result a second time leaves
\* it unchanged.
C21_MergeIdempotent ==
    fan.stage = "combining" =>
        /\ \A i, j \in 1..Len(fan.combined) :
              fan.combined[i].id = fan.combined[j].id => i = j
        /\ Ids(fan.combined) = Ids(fan.before) \cup Ids(fan.last)
        /\ fan.again => fan.combined = fan.before

C21_Witness ==
    /\ fan.stage = "combining"
    /\ fan.again
    /\ Len(fan.last) = 2
    /\ Len(fan.combined) > Len(fan.last)
    /\ \E i \in 1..Len(fan.last) : \E j \in 1..Len(fan.combined) :
          fan.last[i].id = fan.combined[j].id

\* The service name carries the "-jobs" marker.
HasJobsMarker(name) == \E i \in 2..Len(name) : name[i] = "jobs"

\* C22: the fallback lookup is attempted exactly when the primary lookup
\* came back not-found and the service name carries the "-jobs" marker; it
\* is attempted at most once, so a resolution makes at most two lookups.
C22_FallbackIff ==
    svc.stage \in {"resolved", "unresolved", "done"} =>
        /\ svc.fallback # "none" <=>
              (svc.primary = "not_found" /\ HasJobsMarker(svc.name))
        /\ svc.lookups <= 2
        /\ svc.fallback # "none" => svc.lookups = 2

\* C23: when the resolution has failed with RepositoryNotFound the code
\* analysis is not run for the service, and the service's result carries
\* the failure once it is complete.
C23_SkipOnNotFound ==
    svc.failure = "RepositoryNotFound" =>
        /\ ~svc.codeAnalysis
        /\ svc.repo = <<>>
        /\ svc.stage = "done" => "repository not found" \in svc.notes

C23_Witness ==
    /\ svc.stage = "done"
    /\ svc.failure = "RepositoryNotFound"
    /\ svc.fallback = "not_found"
    /\ svc.fallbackName # svc.name

Correlated ==
    {c \in svc.commits :
        /\ c.forService
        /\ c.at \in (svc.ref - 72)..svc.ref
        /\ <<c.hash, c.build>> = <<svc.version.hash, svc.version.build>>}

\* C25: when no commit matches within the window the stage ends with no
\* deployment and the reason "no deployment in window"; it records no
\* failure and the service's investigation goes on.
C25_NoDeploymentIsValid ==
    (svc.stage \in {"checked", "code"} /\ Correlated = {}) =>
        /\ svc.deployment = {}
        /\ "no deployment in window" \in svc.notes
        /\ svc.failure = "none"
        /\ svc.partialFailures = {}
        /\ svc.stage = "checked" => ENABLED ProceedToCode

C25_Witness ==
    /\ svc.stage = "code"
    /\ svc.deployment = {}
    /\ "no deployment in window" \in svc.notes
    /\ \E c \in svc.commits :
          c.forService /\ c.at = svc.ref + 1 /\ c.hash = svc.version.hash
                       /\ c.build = svc.version.build

\* The line lies in a hunk of the diff, first and last line included.
InHunk(line) ==
    \E h \in svc.diff : h.start <= line /\ line <= h.start + h.len - 1

\* C26: the confidence is HIGH exactly when the frame with index 0 (the
\* first frame) has a direct match, whatever the other frames' correlations.
C26_HighIffRootDirect ==
    svc.stage = "analysed" =>
        (svc.confidence = "HIGH" <=> InHunk(svc.frames[1]))

\* C27: a frame's correlation is a direct match exactly when the frame's
\* line is one of the diff's changed lines, the first and the last line of
\* a hunk included.
C27_DirectMatch ==
    svc.stage \in {"correlated", "analysed"} =>
        /\ Len(svc.correlations) = Len(svc.frames)
        /\ \A i \in 1..Len(svc.frames) :
              /\ svc.correlations[i].stackFrameLine = svc.frames[i]
              /\ svc.correlations[i].isDirectMatch <=> InHunk(svc.frames[i])

C27_Witness ==
    /\ svc.stage = "correlated"
    /\ Len(svc.frames) = 2
    /\ \E h \in svc.diff :
          /\ h.len = 2
          /\ svc.frames[1] = h.start
          /\ svc.frames[2] = h.start + h.len
          /\ svc.correlations[1].isDirectMatch
          /\ ~svc.correlations[2].isDirectMatch

\* C28: the frames of a parsed trace carry the indices 0..N-1 in the order
\* of the trace's lines, each "at" line read so far giving one frame.
C28_FrameIndices ==
    LET frames == svc.frames IN
    /\ \A i \in 1..Len(frames) : frames[i].index = i - 1
    /\ \A i, j \in 1..Len(frames) :
          i < j => /\ frames[i].line < frames[j].line
                   /\ frames[i].index < frames[j].index
    /\ {frames[i].line : i \in 1..Len(frames)}
          = {p \in 1..(svc.pos - 1) : svc.raw[p] = "at"}

C28_Witness ==
    /\ svc.stage = "parsed"
    /\ Len(svc.frames) >= 2
    /\ svc.frames[1].line > 1
    /\ svc.frames[2].line > svc.frames[1].line + 1
    /\ svc.frames[2].index = 1

\* The attempts of the subagent that ended with the failure type.
AttemptsEnding(k) ==
    Cardinality({i \in 1..Len(svc.attempts) : svc.attempts[i] = k})

\* C29: a schema error is never retried, and is recorded as a degradation.
C29_SchemaNeverRetried ==
    /\ svc.retries["schema_error"] = 0
    /\ AttemptsEnding("schema_error") <= 1
    /\ (svc.stage = "degraded" /\ svc.last = "schema_error")
          => "schema_error" \in svc.failures

\* C29 (amended): a schema error is retried at most the configured number
\* of times, not at all under the default configuration, and the schema
\* error that is not retried is recorded as a degradation.
C29_SchemaRetriedAsConfigured ==
    /\ svc.retries["schema_error"] <= svc.config["schema_error"]
    /\ AttemptsEnding("schema_error") <= svc.config["schema_error"] + 1
    /\ svc.config = DefaultRetries =>
          /\ svc.retries["schema_error"] = 0
          /\ (svc.stage = "failed" /\ svc.last = "schema_error")
                => ~ENABLED RetrySubagent /\ ENABLED ContinueWithPartialData
    /\ (svc.stage = "degraded" /\ svc.last = "schema_error")
          => "schema_error" \in svc.failures

C29_Witness ==
    /\ svc.config = DefaultRetries
    /\ svc.stage = "degraded"
    /\ svc.attempts = <<"tool_error", "schema_error">>
    /\ svc.failures = {"schema_error"}

\* The sessions to process whose query has not been sent.
AwaitingQuery ==
    {sid \in fan.retained : fan.queries[sid].status = "none"}

\* C30: the session queries in flight never exceed the configured limit,
\* and the limit alone holds a query back: below it a session awaiting its
\* query can be served, whatever the state of the service pipelines.
C30_InFlightWithinCap ==
    /\ Cardinality({sid \in DOMAIN fan.queries :
                       fan.queries[sid].status = "inflight"})
          <= fan.concurrency
    /\ (/\ fan.stage = "selected"
        /\ AwaitingQuery # {}
        /\ Cardinality({sid \in DOMAIN fan.queries :
                           fan.queries[sid].status = "inflight"})
              < fan.concurrency)
          => \A sid \in AwaitingQuery : ENABLED IssueSessionQueryCapped(sid)

C30_Witness ==
    /\ fan.stage = "selected"
    /\ AwaitingQuery # {}
    /\ Cardinality({sid \in DOMAIN fan.queries :
                       fan.queries[sid].status = "inflight"})
          = fan.concurrency
    /\ ~ENABLED IssueSessionQueryCapped(CHOOSE sid \in AwaitingQuery : TRUE)

\* C31: the unique services and the unique session ids of a search result
\* are the services and the sessions of its entries, in every state.
C31_UniqueSetsDerived ==
    fan.stage = "gathering" =>
        /\ \A s \in 1..MaxEntryIds :
              s \in fan.uniqueServices
                 <=> \E i \in 1..Len(fan.entries) : fan.entries[i].service = s
        /\ \A e \in 1..MaxEntryIds :
              e \in fan.uniqueSessionIds
                 <=> \E i \in 1..Len(fan.entries) : fan.entries[i].efilogid = e
        /\ fan.uniqueServices \subseteq 1..MaxEntryIds
        /\ fan.uniqueSessionIds \subseteq 1..MaxEntryIds

C31_Witness ==
    /\ fan.stage = "gathering"
    /\ Len(fan.entries) = 3
    /\ Cardinality(fan.uniqueServices) = 2
    /\ Cardinality(fan.uniqueSessionIds) = 2
    /\ Len(fan.last) = 2

\* The line is within the proximity of a changed line of the diff.
NearHunk(line) ==
    \E h \in svc.diff : \E c \in h.start..(h.start + h.len - 1) :
       (IF line >= c THEN line - c ELSE c - line) <= Proximity

\* C32: without a direct match of the root frame the confidence is MEDIUM
\* if some owned frame has a direct or a nearby match and LOW otherwise,
\* and the confidence of an analysed trace is one of HIGH, MEDIUM, LOW.
C32_MediumLowPolicy ==
    svc.stage = "analysed" =>
        /\ svc.confidence \in {"HIGH", "MEDIUM", "LOW"}
        /\ ~(svc.frames[1].is_sunbit_code /\ InHunk(svc.frames[1].line)) =>
              svc.confidence =
                 IF \E i \in 1..Len(svc.frames) :
                       /\ svc.frames[i].is_sunbit_code
                       /\ \/ InHunk(svc.frames[i].line)
                          \/ NearHunk(svc.frames[i].line)
                 THEN "MEDIUM" ELSE "LOW"

\* C33: a failure of a type whose retry count is zero is not retried: the
\* task is not run again after it, and with every count at zero the task
\* is run exactly once.
C33_ZeroMeansNoRetry ==
    /\ \A k \in {"tool_error", "timeout", "schema_error"} :
          svc.config[k] = 0 =>
             /\ svc.retries[k] = 0
             /\ \A i \in 1..Len(svc.attempts) :
                   svc.attempts[i] = k => i = Len(svc.attempts)
             /\ (svc.stage = "failed" /\ svc.last = k)
                   => ~ENABLED RetrySubagent
    /\ (\A k \in DOMAIN svc.config : svc.config[k] = 0)
          => /\ Len(svc.attempts) <= 1
             /\ svc.stage # "running" => Len(svc.attempts) = 1

C33_Witness ==
    /\ \A k \in DOMAIN svc.config : svc.config[k] = 0
    /\ svc.stage = "degraded"
    /\ svc.attempts = <<"tool_error">>
    /\ svc.failures = {"tool_error"}

\* C34: one search sends at most two requests, whatever the kinds of its
\* failures: a request sent as a retry is not retried.
C34_AtMostTwoRequests ==
    /\ svc.sends <= 2
    /\ Len(svc.log) <= 2

\* The entries of the result map that belong to the service.
EntriesOf(m, s) == {k \in DOMAIN m : m[k].service = s}

\* C35: a merged result is neither lost nor replaced by a later merge, and
\* the run reaches DONE with exactly one entry for each of the services
\* found, the service's own, and with no other entry.
C35_OneEntryPerService ==
    [][/\ \A k \in DOMAIN perService :
             k \in DOMAIN perService' /\ perService'[k] = perService[k]
       /\ \A s \in services' : Cardinality(EntriesOf(perService', s)) <= 1
       /\ state' = "DONE" =>
             /\ \A s \in services' :
                   Cardinality(EntriesOf(perService', s)) = 1
             /\ \A k \in DOMAIN perService' :
                   perService'[k].service \in services'
             /\ \A r \in result' :
                   Cardinality(DOMAIN r.perService) = Cardinality(services')]_vars

C35_Witness ==
    /\ state = "DONE"
    /\ Cardinality(services) = MaxServices
    /\ \A s \in services :
          /\ Cardinality(EntriesOf(perService, s)) = 1
          /\ perService[s].partialFailures = {}
    /\ result # {}

\* C36: a phase of the rewrite is run only when the phase before it has
\* been run and has passed its gate.
C36_GateBeforeNextPhase ==
    \A i \in 1..Len(svc.phaseResults) :
       svc.phaseResults[i].phase > 1 =>
          \E j \in 1..Len(svc.phaseResults) :
             /\ svc.phaseResults[j].phase = svc.phaseResults[i].phase - 1
             /\ svc.phaseResults[j].gatePassed

\* C37: the build process returns success exactly when each of the five
\* phases' verifications and the integration test reported allPassed.
C37_SuccessIffAllPassed ==
    svc.stage = "returned" =>
        /\ Len(svc.phaseResults) = 5
        /\ \A p \in 1..5 : svc.phaseResults[p].phase = p
        /\ svc.integrationTestResult.ran
        /\ svc.success <=>
              /\ \A p \in 1..5 : svc.phaseResults[p].success
              /\ svc.integrationTestResult.allPassed

C37_Witness ==
    /\ svc.stage = "returned"
    /\ svc.success
    /\ Len(svc.phaseResults) = 5

\* C38: a convergence loop measures at least once and at most
\* maxIterations times, and it always ends: the process returns with an
\* iteration count between 1 and maxIterations, the number of measurements.
C38_LoopBounded ==
    /\ [](/\ Len(svc.measurements) <= svc.loop.maxIterations
          /\ svc.pc = "returned" =>
                /\ svc.iterations >= 1
                /\ svc.iterations <= svc.loop.maxIterations
                /\ svc.iterations = Len(svc.measurements))
    /\ <>(svc.pc = "returned")

C38_Witness ==
    /\ svc.pc = "returned"
    /\ svc.loop.maxIterations = 3
    /\ svc.iterations = 3
    /\ ~svc.converged

\* C39: the refine task runs in an iteration exactly when the iteration's
\* measurement missed the target and the iteration is not the last allowed
\* one; none runs after convergence, and each is followed by a measurement
\* before the process returns.
C39_RefineIffMissedAndNotLast ==
    /\ \A i \in 1..Len(svc.measurements) :
          (i \in svc.refined \/ (svc.pc = "refine" /\ i = svc.iteration))
             <=> /\ ~(/\ svc.measurements[i].quality >= svc.loop.target
                      /\ svc.measurements[i].passed)
                 /\ i < svc.loop.maxIterations
    /\ svc.refined \subseteq 1..Len(svc.measurements)
    /\ svc.converged => svc.pc # "refine"
    /\ svc.pc = "returned" =>
          \A i \in svc.refined : Len(svc.measurements) > i

C39_Witness ==
    /\ svc.pc = "returned"
    /\ svc.loop.maxIterations = 5
    /\ svc.refined = {1, 2}
    /\ svc.converged
    /\ svc.iterations = 3

\* C40: the process reports success only if its four verification tasks
\* (the last four tasks) passed.
C40_SuccessOnlyIfVerified ==
    svc.status = "success" =>
        \A i \in 11..14 : i <= Len(svc.results) /\ svc.results[i]

====
